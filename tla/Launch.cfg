\* Three launches, none starting inside the lock window of another; kills and PID reuse.
\* Four dates, the third closed, with any mix of markets and outages; three years and refreshes.
SPECIFICATION MCSpec
CONSTANTS
    Launches = {l1, l2, l3}
    Spaced = TRUE
    NoFile = NoFile
    Empty = Empty
    LastDate = 4
    Closed = {3}
    Require = 2
    Markets <- MCMarkets
    Outages <- MCOutages
    LastYear = 2
    YearDays = 7
    WeekDays = 7
    Ahead = 2
    Holidays = {1, 3, 8, 16, 17}
    Shipped = {1, 8}
    MaxRefreshes = 3
    None = None
CHECK_DEADLOCK FALSE
INVARIANTS
    MutualExclusion
    StreakNotBridged
PROPERTIES
    StaleLockTaken
    ClosedStaysClosed
