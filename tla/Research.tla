------------------------------- MODULE Research -------------------------------
(***************************************************************************)
(* The stages that find and describe what the pipeline looks at: a scan of *)
(* DART's list (Disclosures), the days of universe and catalyst            *)
(* (Discovery), the segment index with its resolver (Segments) and the     *)
(* figures of a company in the financial cache (Financials).  They meet    *)
(* only in data: what a scan returns is an arbitrary part of the filings   *)
(* in Discovery, and a segment adds an enrichment there or not.  So a      *)
(* behaviour follows one of the four, its focus, and the others have no    *)
(* state.                                                                  *)
(***************************************************************************)
EXTENDS Integers, FiniteSets, Sequences

CONSTANTS
    Today, Window, PageSize, MaxPages, Retry, Consumers, Degrading, Keeping,
    OneCompany, Reach, Archives, MaxFilings,
    LastDay, MaxBuilds, Calendars, Companies, Prices, Subsidiaries, Literals,
    Pairs, AutoPairs, Exclusions, Lookback, Narrowing, Panic, Rows, Archive, Verdicts,
    Tickers, Models, Texts, Anchors, Seeds, Values, Selectors, Policies, MaxIndexings, MaxChanges,
    MaxNow, MaxReports, MaxSignals, YearDays, Deadline, IndexTtl, FiguresTtl, Grace, SignalSpan,
    Books, SignalKinds, OldFiles,
    None

VARIABLES
    focus,
    filed, who, span, win, page, tries, events, base, outcome,
    day, holidays, market, excluded, date, entries, todo, nav, universe, builds, quality, scan,
    model, text, rows, vectors, scalars, queue, current, answer, indexings, changes,
    now, reports, signals, listed, index, file, tmp, at, known, denied, draft, used

Scan   == INSTANCE Disclosures
Stages == INSTANCE Discovery WITH MaxDay <- LastDay
Layer  == INSTANCE Segments
Figures == INSTANCE Financials WITH Kinds <- SignalKinds

ASSUME ResearchAssumption ==
    /\ Layer!ConceptsAssumption /\ Layer!SelectorsAssumption /\ Layer!PoliciesAssumption
    /\ Figures!FiguresAssumption /\ Stages!DiscoveryAssumption /\ Scan!ScanAssumption

NoScan ==
    /\ filed = << >> /\ who = None /\ span = 0 /\ win = 0 /\ page = 0 /\ tries = 0
    /\ events = << >> /\ base = 0 /\ outcome = None
NoStages ==
    /\ day = 0 /\ holidays = {} /\ market = << >> /\ excluded = {} /\ date = None
    /\ entries = {} /\ todo = {} /\ nav = << >> /\ universe = None /\ builds = 0
    /\ quality = None /\ scan = None
NoLayer ==
    /\ model = None /\ text = << >> /\ rows = << >> /\ vectors = << >> /\ scalars = << >>
    /\ queue = << >> /\ current = FALSE /\ answer = None /\ indexings = 0 /\ changes = 0
NoFigures ==
    /\ now = 0 /\ reports = << >> /\ signals = {} /\ listed = None /\ index = None
    /\ file = None /\ tmp = None /\ at = None /\ known = FALSE /\ denied = FALSE
    /\ draft = None /\ used = None

ResearchInit ==
    \/ focus = "scan"   /\ Scan!Init   /\ NoStages /\ NoLayer /\ NoFigures
    \/ focus = "stages" /\ Stages!Init /\ NoScan   /\ NoLayer /\ NoFigures
    \/ focus = "layer"  /\ Layer!Init  /\ NoScan   /\ NoStages /\ NoFigures
    \/ focus = "figures" /\ Figures!Init /\ NoScan /\ NoStages /\ NoLayer

scanVars  == <<filed, who, span, win, page, tries, events, base, outcome>>
stageVars == <<day, holidays, market, excluded, date, entries, todo, nav, universe, builds, quality, scan>>
layerVars == <<model, text, rows, vectors, scalars, queue, current, answer, indexings, changes>>
figureVars == <<now, reports, signals, listed, index, file, tmp, at, known, denied, draft, used>>
researchVars == <<focus, scanVars, stageVars, layerVars, figureVars>>

ResearchNext ==
    \/ focus = "scan"   /\ Scan!Next   /\ UNCHANGED <<focus, stageVars, layerVars, figureVars>>
    \/ focus = "stages" /\ Stages!Next /\ UNCHANGED <<focus, scanVars, layerVars, figureVars>>
    \/ focus = "layer"  /\ Layer!Next  /\ UNCHANGED <<focus, scanVars, stageVars, figureVars>>
    \/ focus = "figures" /\ Figures!Next /\ UNCHANGED <<focus, scanVars, stageVars, layerVars>>

ResearchSpec == ResearchInit /\ [][ResearchNext]_researchVars

------------------------------------------------------------------------------
(* Disclosures: no shift between two pages hides a filing that stood when  *)
(* the scan began.                                                         *)
StandingFilingSeen == focus = "scan" => Scan!StandingFilingSeen

(* Discovery: a narrowing that is reported happened in the market.         *)
NarrowingIsTrue == focus = "stages" => Stages!NarrowingIsTrue

(* Discovery: a panic compares a session before the filing with one after. *)
PanicStraddlesFiling == focus = "stages" => Stages!PanicStraddlesFiling

(* Discovery: what audit.md of the catalyst context says of its detectors. *)
CandidatesInUniverse == focus = "stages" => Stages!CandidatesInUniverse

(* Discovery: what scan_catalysts.py says of a ticker that did not pass.   *)
FailedIsMarked == focus = "stages" => Stages!FailedIsMarked

(* Segments: an index build that ended whole leaves nothing stale.         *)
IndexIsCurrent == focus = "layer" => Layer!IndexIsCurrent

(* Segments: missing values make nobody a member.                          *)
MembershipIsSound == focus = "layer" => Layer!MembershipIsSound

(* Segments: what selector.py says of a missing embedding.                 *)
MissingEmbeddingIsUnknown == focus = "layer" => Layer!MissingEmbeddingIsUnknown

(* Segments: the order of the registry's files decides nothing.            *)
MergeIgnoresListing == focus = "layer" => Layer!MergeIgnoresListing

(* Financials: every figure of a verdict is one reported for its year.     *)
FiguresAreOfTheirYear == focus = "figures" => Figures!FiguresAreOfTheirYear

(* Financials: what the strategy says of the validity of the cache.        *)
CacheWithinValidity == focus = "figures" => Figures!CacheWithinValidity
==============================================================================
