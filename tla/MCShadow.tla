------------------------------- MODULE MCShadow -------------------------------
(***************************************************************************)
(* The shadow portfolios: what a run does to the four books (the engine,   *)
(* ShadowPortfolio) and how runs and inits put them on disk (ShadowAudit). *)
(* The second sees of the books only their dates and numbers of trades, so *)
(* a behaviour follows one of the two, its focus, and the other stands     *)
(* still.  The runs of the files are interchangeable, and every property   *)
(* checked is a safety property.                                           *)
(*                                                                         *)
(* The engine has all four tiers.  Prices are 1, 2 and 4, the capital a    *)
(* large power of two, so every division is exact.                         *)
(***************************************************************************)
EXTENDS ShadowAudit, TLC

CONSTANTS
    Tickers, EngineTiers, Tier0Tickers, Capital, TopK, MaxHoldDays, Threshold,
    MaxDate, QuarterDays, MaxRuns, NoPrice, Trails,
    a, b, c

VARIABLES focus, tiers, snaps, log, today, runs, last

Portfolio == INSTANCE ShadowPortfolio WITH Tiers <- EngineTiers

engineVars == <<tiers, snaps, log, today, runs, last>>
allVars    == <<focus, vars, engineVars>>

ASSUME EngineAssumption ==
    Portfolio!TiersAssumption /\ Portfolio!BoundsAssumption /\ Portfolio!TrailsAssumption

(* The engine's behaviours stand beside one choice of the runs' dates.     *)
MCInit ==
    /\ Init /\ Portfolio!Init
    /\ \/ focus = "files"
       \/ focus = "engine" /\ date = [r \in Runs |-> CHOOSE d \in Dates : TRUE]

MCNext ==
    \/ focus = "files"  /\ Next        /\ UNCHANGED <<focus, engineVars>>
    \/ focus = "engine" /\ Portfolio!Next /\ UNCHANGED <<focus, vars>>

MCSpec == MCInit /\ [][MCNext]_allVars

Symmetry == Permutations(Runs)

------------------------------------------------------------------------------
MCTickers == {a, b, c}
MCTier0   == <<a, b>>
MCThreshold == <<1, 8>>

(* Markets: the index drifting apart by a factor of four, a ticker without *)
(* a price, and none at all (on a day with nothing else).                  *)
RisenA   == a :> 4 @@ b :> 2 @@ c :> 2
MCPrices == {a :> 1 @@ b :> 2 @@ c :> 2, RisenA, a :> 4 @@ b :> 0 @@ c :> 1}
NoPrices == a :> 0 @@ b :> 0 @@ c :> 0

cat(t, p) == [ticker |-> t, primary |-> p]
rec(t, q) == [ticker |-> t, quarters |-> q]
pool(u, q, p) == [universe |-> u, quality |-> q, passed |-> p]

day(cats, recs, trig, pl) ==
    [catalysts |-> cats, recs |-> recs, triggered |-> trig, pool |-> pl]

(* Days: more recommended than there is; duplicate candidates and a       *)
(* falsifier; a ticker recommended and falsified at once; nothing.         *)
EmptyDay == day(<< >>, << >>, {}, pool({a, c}, "missing", {}))
MCDays ==
    {day(<<cat(c, FALSE), cat(a, TRUE)>>, <<rec(a, 2), rec(b, 4)>>, {}, pool({a, b, c}, "present", {b})),
     day(<<cat(b, TRUE), cat(b, TRUE), cat(c, TRUE)>>, <<rec(c, 1), rec(c, 1)>>, {a}, pool({a, c}, "missing", {}))}
FalsifiedDay == day(<<cat(b, TRUE), cat(c, TRUE)>>, <<rec(a, 2)>>, {a}, pool({a, b, c}, "present", {b}))

MCTrails == {[prices |-> p] @@ d : p \in MCPrices, d \in MCDays}
            \cup {[prices |-> p] @@ FalsifiedDay : p \in {RisenA}}
            \cup {[prices |-> NoPrices] @@ EmptyDay}

------------------------------------------------------------------------------
(* ShadowPortfolio: a second run of a date with the same inputs changes    *)
(* nothing.                                                                *)
RerunIsIdempotent == Portfolio!RerunIsIdempotent

(* ShadowPortfolio: what QUARTER counts is what the books say.             *)
QuarterHistory == Portfolio!QuarterHistory

(* ShadowPortfolio: buying and selling move value, they make none.         *)
NavConserved == Portfolio!NavConserved
==============================================================================
