\* The brake: four days, three assets, four runs, two faults.  The sessions: two stages,
\* three sessions, any interleaving and death, every mix of the policy's switches.
SPECIFICATION MCSpec
CHECK_DEADLOCK FALSE
CONSTANTS
    Unit = 1000
    Threshold = 150
    None = None
    Torn = Torn
    Assets = {80, 84, 100}
    LastDay = 4
    Readings = {0}
    Lookback = 2
    MaxRuns = 4
    MaxFaults = 2
    Stages = {"sync", "price"}
    Syncs = {"sync"}
    TTL = 2
    Life = 4
    Retry = 1
    Switches = {TRUE, FALSE, None}
    MaxTime = 4
    MaxSessions = 3
    Absent = Absent
INVARIANTS
    SameDayAgrees
    NoFalseBrake
    PeakFallsOnlyByAge
    SentTokenIsLive
    SummaryIsHonest
