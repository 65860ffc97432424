SPECIFICATION ResearchSpec
CONSTANTS
    Today = 4
    Window = 3
    PageSize = 1
    MaxPages = 3
    Retry = 1
    Consumers = {"universe", "catalyst", "screener"}
    Degrading = {"universe"}
    Keeping = {"catalyst"}
    OneCompany = {"screener"}
    Reach <- MCReach
    Archives <- MCArchives
    MaxFilings = 4
    LastDay = 4
    MaxBuilds = 2
    Calendars = {{2}}
    Companies = {"h", "s", "t"}
    Prices <- MCPrices
    Subsidiaries <- MCSubsidiaries
    Literals = {}
    Pairs = {}
    AutoPairs = {"t"}
    Exclusions = {{}}
    Lookback = 1
    Narrowing = 500
    Panic = 1000
    Rows = 3
    Archive <- MCArchive
    Verdicts = {{"s"}}
    Tickers = {"t", "u"}
    Models = {m, n}
    Texts = {"x", "y"}
    Anchors <- MCAnchors
    Seeds <- MCSeeds
    Values = {0, 1}
    Selectors <- MCSelectors
    Policies <- MCPolicies
    MaxIndexings = 2
    MaxChanges = 1
    MaxNow = 7
    MaxReports = 2
    MaxSignals = 1
    YearDays = 3
    Deadline = 1
    IndexTtl = 2
    FiguresTtl = 2
    Grace = 1
    SignalSpan = 2
    Books <- MCBooks
    SignalKinds = {"buyback"}
    OldFiles <- MCOldFiles
    None = None
SYMMETRY Symmetry
INVARIANTS
    FiguresAreOfTheirYear
    StandingFilingSeen
    NarrowingIsTrue
    PanicStraddlesFiling
    IndexIsCurrent
    MembershipIsSound
    MergeIgnoresListing
CHECK_DEADLOCK FALSE
