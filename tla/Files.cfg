\* Four calls of one writer at a time on two paths, any of them aborted; three writes of
\* six kinds of file, two dates, any number of GCs, each killed anywhere.
SPECIFICATION MCSpec
CONSTANTS
    Writers = {w1, w2}
    Paths = {p1, p2}
    MaxCalls = 4
    Serialized = TRUE
    Absent = Absent
    Torn = Torn
    NoCall = NoCall
    Kinds = {"positions_ticker_balance", "audit_breadth", "logs_cron", "audit_scheduler_state", "launchd_log", "positions_ticker_thesis_json"}
    Tickers = {"KR_003550"}
    BadTickers = {"088350"}
    Gone = {"audit_scheduler_state"}
    MaxDate = 2
    MaxWrites = 3
CHECK_DEADLOCK FALSE
INVARIANTS
    OnePassSettles
    NewestCopyKept
PROPERTIES
    NeverOverwritten
    RefinesLog
    EvidenceSurvives
