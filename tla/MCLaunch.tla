------------------------------- MODULE MCLaunch -------------------------------
(***************************************************************************)
(* What a launch begins with: the run lock (RunLock), the refresh of the   *)
(* exchange's holidays (Calendar) and the regime of Stage 0 (Regime).      *)
(* They share no file, so a behaviour follows one of the three, its focus, *)
(* and the others stand still.                                             *)
(***************************************************************************)
EXTENDS RunLock, Naturals

CONSTANTS
    LastDate, Closed, Require, Markets, Outages,
    LastYear, YearDays, WeekDays, Ahead, Holidays, Shipped, MaxRefreshes,
    None

VARIABLES
    focus,
    date, report, said, word, hurt,
    year, official, cache, verified, asked, fetched, phase, refreshes

Stage0 == INSTANCE Regime
Krx    == INSTANCE Calendar

regimeVars   == <<date, report, said, word, hurt>>
calendarVars == <<year, official, cache, verified, asked, fetched, phase, refreshes>>
allVars      == <<focus, vars, regimeVars, calendarVars>>

(* The last two days of a week are closed, so that a week has an open one, *)
(* and no holiday lies before the first date.                              *)
ASSUME CalendarAssumption ==
    /\ LastYear \in Nat /\ YearDays \in Nat \ {0} /\ WeekDays \in Nat /\ WeekDays > 2
    /\ Ahead \in Nat /\ MaxRefreshes \in Nat
    /\ Holidays \subseteq Nat /\ Shipped \subseteq Holidays

ASSUME RegimesAssumption == Stage0!RegimeAssumption

MCInit == Init /\ Stage0!Init /\ Krx!Init /\ focus \in {"lock", "regime", "calendar"}

Locking(A) == focus = "lock" /\ A /\ UNCHANGED <<focus, regimeVars, calendarVars>>

MCNext ==
    \/ Locking(Next)
    \/ focus = "regime"   /\ Stage0!Next /\ UNCHANGED <<focus, vars, calendarVars>>
    \/ focus = "calendar" /\ Krx!Next    /\ UNCHANGED <<focus, vars, regimeVars>>

(* RunLock's fairness: a launch that is taking the lock goes on.           *)
MCFairness == \A l \in Launches : WF_allVars(Locking(Take(l)))

MCSpec == MCInit /\ [][MCNext]_allVars /\ MCFairness

------------------------------------------------------------------------------
(* Markets that are calm, inverted, in panic, and hardly measured.         *)
market(ten, spread, vix, breadth) ==
    [dgs10 |-> ten, dgs2 |-> <<None, 400>>, oas |-> spread, vix |-> vix, breadth |-> breadth]
MCMarkets ==
    {market(<<450>>, <<None, 350>>, <<15, 10, 20, 18>>, 70),
     market(<<300>>, <<450>>, <<10, 12, 15, 20, 22>>, 50),
     market(<<400>>, <<900>>, <<40, 10, 20, 30>>, 15),
     market(<<None>>, << >>, << >>, 45)}
(* Nothing is down, FRED is, all is, or one series and the breadth.        *)
Fred == {"yield_curve", "credit_spread", "vix"}
MCOutages == {{}, Fred, Fred \cup {"breadth"}, {"credit_spread", "breadth"}}

------------------------------------------------------------------------------
(* Regime: a streak does not reach across a report that said something     *)
(* else.                                                                   *)
StreakNotBridged == Stage0!StreakNotBridged

(* Regime: what classify.md says the streak counts (false of the code).    *)
StreakCountsDays == Stage0!StreakCountsDays

(* Regime: what regimes.yaml says of the alert (false of the code).        *)
LastingShiftAlerts == Stage0!LastingShiftAlerts

(* Calendar: a day that is known to be closed stays so.                    *)
ClosedStaysClosed == Krx!ClosedStaysClosed

(* Calendar: what _covers_current_year says of a new year (false of it).   *)
NewYearIsFetched == Krx!NewYearIsFetched
==============================================================================
