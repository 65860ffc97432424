\* The engine: three runs on any of five days, quarters of two days, all four tiers.
\* The files: two inits and three runs, one at a time, each dying anywhere.
SPECIFICATION MCSpec
CONSTANTS
    Runs = {r1, r2, r3}
    Inits = {i1, i2}
    Dates = {d1, d2}
    Tiers = {t1, t2}
    MaxTrades = 1
    Serialized = TRUE
    NoFile = NoFile
    Torn = Torn
    a = a
    b = b
    c = c
    Tickers <- MCTickers
    EngineTiers = {"tier_0_passive_index", "tier_1_mechanical", "tier_2_llm_filtered", "tier_3_random"}
    Tier0Tickers <- MCTier0
    Capital = 65536
    TopK = 2
    MaxHoldDays = 1
    Threshold <- MCThreshold
    MaxDate = 4
    QuarterDays = 2
    MaxRuns = 3
    NoPrice = 0
    Trails <- MCTrails
SYMMETRY Symmetry
CHECK_DEADLOCK FALSE
INVARIANTS
    UniqueTradeIds
    RerunIsIdempotent
    QuarterHistory
PROPERTIES
    HistoryAccumulates
    NavConserved
