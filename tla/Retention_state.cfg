\* A living file with a collision copy.
SPECIFICATION Spec
CONSTANTS
    Kinds = {"positions_ticker_thesis_json", "audit_shadow_state"}
    Tickers = {"KR_003550"}
    BadTickers = {}
    Gone = {}
    MaxDate = 1
    MaxWrites = 2
PROPERTIES
    StateSurvives
