\* One run without the Stage 3 file of the day: what the linker says it does.
SPECIFICATION Spec
CHECK_DEADLOCK FALSE
CONSTANTS
    a = a
    b = b
    Tickers <- MCTickers
    Days = {1, 16, 30, 31, 70}
    Stage4 <- MCStage4
    Stage3 <- MCStage3
    NoticeDays = 20
    WarnDays = 5
    LowMax = 50
    MediumMax = 90
    MaxRuns = 2
    MaxEdits = 0
    MaxDeaths = 0
    Missing = Missing
    Torn = Torn
INVARIANTS
    MissingStage3Unspecified
