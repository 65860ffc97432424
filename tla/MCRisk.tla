-------------------------------- MODULE MCRisk --------------------------------
(***************************************************************************)
(* The risk engine: Stage 5 sizes the candidates of Stage 4 (Sizing), 5a   *)
(* to 5d turn them into theses and watch these (ThesisStore).  The two     *)
(* read the same file and nothing of each other, so a behaviour follows    *)
(* one of them, its focus, and the other stands still.                     *)
(***************************************************************************)
EXTENDS Sizing

CONSTANTS
    Tickers, Days, Stage4, Stage3, NoticeDays, WarnDays, LowMax, MediumMax,
    MaxRuns, MaxEdits, MaxDeaths, Missing, Torn,
    TickerA, TickerB

INSTANCE ThesisCases WITH a <- TickerA, b <- TickerB

VARIABLES
    focus,
    day, stage3, stage4, thesis, suffixed, step, next, written, proximity, events, expiry,
    died, touched, runs, edits, deaths, alarm

Theses == INSTANCE ThesisStore WITH pc <- step

thesisVars == <<day, stage3, stage4, thesis, suffixed, step, next, written, proximity, events,
                expiry, died, touched, runs, edits, deaths, alarm>>
allVars    == <<focus, vars, thesisVars>>

ASSUME ThesesAssumption == Theses!ThesisAssumption

(* Of the part that stands still one initial state is enough.              *)
MCInit ==
    \/ /\ focus = "sizing"
       /\ stage3 = Missing /\ stage4 = Missing
       /\ Theses!Init /\ Init
    \/ /\ focus = "theses"
       /\ cands = << >> /\ inputs = CHOOSE in \in Inputs : TRUE
       /\ Init /\ Theses!Init

MCNext ==
    \/ focus = "sizing" /\ Next        /\ UNCHANGED <<focus, thesisVars>>
    \/ focus = "theses" /\ Theses!Next /\ UNCHANGED <<focus, vars>>

MCSpec == MCInit /\ [][MCNext]_allVars

------------------------------------------------------------------------------
(* ThesisStore: what the user decided is the user's.                       *)
CompleteFilesKept == Theses!CompleteFilesKept

(* ThesisStore: no accepted candidate falls through.                       *)
AcceptedIsWatched == Theses!AcceptedIsWatched

(* ThesisStore: a thesis past its horizon asks for a decision.             *)
PastHorizonAsks == Theses!PastHorizonAsks

(* ThesisStore: alarms do not ease by themselves.                          *)
AlarmsNeverEase == Theses!AlarmsNeverEase
==============================================================================
