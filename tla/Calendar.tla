------------------------------- MODULE Calendar -------------------------------
(***************************************************************************)
(* The exchange's holidays: the yearly refresh of the static cache         *)
(* (infrastructure/krx/refresh_holidays.py), which the daily pipeline      *)
(* calls before its stages and a person may call with --years, and what a  *)
(* run takes for a trading day (infrastructure/_common/utils.py).          *)
(*                                                                         *)
(* A date is a number; a year has YearDays of them, a week WeekDays, of    *)
(* which the last two are closed.                                          *)
(***************************************************************************)
EXTENDS Integers, FiniteSets, FiniteSetsExt

CONSTANTS
    LastYear,      \* bound: years 0 .. LastYear
    YearDays, WeekDays,
    Ahead,         \* the years after this one that a refresh asks for
    Holidays,      \* the dates that ever become holidays
    Shipped,       \* the holidays in the cache that comes with the repository
    MaxRefreshes   \* bound

VARIABLES
    year,      \* the year in Seoul
    official,  \* the holidays that the exchange has announced
    cache,     \* the holidays in _holidays_krx.json
    verified,  \* the year of _meta.last_verified_date
    asked,     \* the years the refresh under way has yet to ask for
    fetched,   \* what the answers held so far
    phase,     \* "idle", "fetch", "open", "fill", "done" or "skip"
    refreshes

vars == <<year, official, cache, verified, asked, fetched, phase, refreshes>>

YearOf(d) == d \div YearDays
Years     == 0 .. LastYear

Init ==
    /\ year = 0 /\ official = Shipped /\ cache = Shipped /\ verified = 0
    /\ asked = {} /\ fetched = {} /\ phase = "idle" /\ refreshes = 0

NewYear ==
    /\ phase = "idle" /\ year < LastYear
    /\ year' = year + 1
    /\ UNCHANGED <<official, cache, verified, asked, fetched, phase, refreshes>>

(* The exchange announces a holiday of this year or a later one.           *)
Announce(d) ==
    /\ d \notin official /\ YearOf(d) >= year
    /\ official' = official \cup {d}
    /\ UNCHANGED <<year, cache, verified, asked, fetched, phase, refreshes>>

(* _covers_current_year                                                    *)
Covers == \E d \in cache : YearOf(d) >= year

(* main, as daily_pipeline.sh calls it: the gate, else three years.        *)
AutoSkips ==
    /\ phase = "idle" /\ refreshes < MaxRefreshes /\ Covers
    /\ phase' = "skip" /\ refreshes' = refreshes + 1
    /\ UNCHANGED <<year, official, cache, verified, asked, fetched>>
AutoStarts ==
    /\ phase = "idle" /\ refreshes < MaxRefreshes /\ ~Covers
    /\ asked' = year .. year + Ahead /\ fetched' = {} /\ phase' = "fetch"
    /\ refreshes' = refreshes + 1
    /\ UNCHANGED <<year, official, cache, verified>>
(* --years: the gate is passed by.                                         *)
StartsFor(ys) ==
    /\ phase = "idle" /\ refreshes < MaxRefreshes
    /\ asked' = ys /\ fetched' = {} /\ phase' = "fetch" /\ refreshes' = refreshes + 1
    /\ UNCHANGED <<year, official, cache, verified>>

(* fetch_krx_holidays, a request per year; an answer may hold no holiday   *)
(* (a field has another name), which is only a warning.                    *)
Fetch(y) ==
    /\ phase = "fetch" /\ y \in asked
    /\ \E rows \in {{}, {d \in official : YearOf(d) = y}} : fetched' = fetched \cup rows
    /\ asked' = asked \ {y}
    /\ phase' = IF asked' = {} THEN "open" ELSE "fetch"
    /\ UNCHANGED <<year, official, cache, verified, refreshes>>
FetchFails ==
    /\ phase = "fetch"
    /\ phase' = "idle" /\ asked' = {}
    /\ UNCHANGED <<year, official, cache, verified, fetched, refreshes>>

(* Mutant: what was fetched takes the place of what was known.             *)
FetchedOnly == fetched
(* merge_holidays                                                          *)
Merged == cache \cup fetched

(* write_atomically: a copy of the old file, the temporary one, the rename *)
OpenTmp ==
    /\ phase = "open" /\ phase' = "fill"
    /\ UNCHANGED <<year, official, cache, verified, asked, fetched, refreshes>>
Rename ==
    /\ phase = "fill"
    /\ cache' = Merged /\ verified' = year /\ phase' = "done"
    /\ UNCHANGED <<year, official, asked, fetched, refreshes>>
Die ==
    /\ phase \in {"fetch", "open", "fill"}
    /\ phase' = "idle" /\ asked' = {}
    /\ UNCHANGED <<year, official, cache, verified, fetched, refreshes>>
Return ==
    /\ phase \in {"done", "skip"} /\ phase' = "idle"
    /\ UNCHANGED <<year, official, cache, verified, asked, fetched, refreshes>>

Next == \/ NewYear
        \/ \E d \in Holidays : Announce(d)
        \/ AutoSkips \/ AutoStarts
        \/ \E ys \in {{y} : y \in Years} : StartsFor(ys)
        \/ \E y \in 0 .. LastYear + Ahead : Fetch(y)
        \/ FetchFails \/ OpenTmp \/ Rename \/ Die \/ Return

Spec == Init /\ [][Next]_vars

(* is_trading_day and normalize_to_trading_day with the calendar `known`.  *)
Open(d, known)      == d % WeekDays < WeekDays - 2 /\ d \notin known
Normalize(d, known) == Max({x \in -WeekDays .. d : Open(x, known)})

------------------------------------------------------------------------------
(* A day that was once known to be closed is taken for a trading day by no *)
(* later run, and no date is normalized to it: whatever a refresh fetches, *)
(* misses or dies at.                                                      *)
StaysClosed ==
    \A d \in Holidays :
        ~Open(d, cache) => /\ ~Open(d, cache')
                           /\ \A e \in Holidays : Normalize(e, cache') # d
ClosedStaysClosed == [][StaysClosed]_vars

(* _covers_current_year says that a new year is fetched by itself.         *)
NewYearIsFetched == phase = "skip" => verified = year
==============================================================================
