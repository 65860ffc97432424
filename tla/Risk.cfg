\* Stage 5: up to two candidates under every mix of inputs, up to four under plain ones.
\* The theses: two runs over four days, one edit by the user, one death.
SPECIFICATION MCSpec
CHECK_DEADLOCK FALSE
CONSTANTS
    Fraction = 2500
    MinPct = 200
    MinRatio = 200
    HalfBelow = 300
    DefaultBand = 3000
    Threshold = 1500
    NoRatio = NoRatio
    Unsized = Unsized
    None = None
    Bad = Bad
    Cap = 2000
    MaxPct = 1000
    RejectBelowMin = FALSE
    Ratios = {NoRatio, 0, 130, 150, 200, 300, 1000}
    MaxCands = 4
    MaxVaried = 2
    Drawdowns = {1499, 1500}
    Cashes = {2999, 3000}
    Bands = {2000, 5000}
    TickerA = a
    TickerB = b
    Tickers <- MCTickers
    Days = {1, 16, 31, 70}
    Stage4 <- MCStage4
    Stage3 <- MCStage3Short
    NoticeDays = 20
    WarnDays = 5
    LowMax = 50
    MediumMax = 90
    MaxRuns = 2
    MaxEdits = 1
    MaxDeaths = 1
    Missing = Missing
    Torn = Torn
INVARIANTS
    OrderFollowsAsymmetry
    WithinCaps
    BrakeKeepsTickers
PROPERTIES
    CompleteFilesKept
    AcceptedIsWatched
    PastHorizonAsks
    AlarmsNeverEase
