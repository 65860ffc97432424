\* Two dates, three launches of four kinds, one failed, torn or killed step.
SPECIFICATION Spec
CONSTANTS
    MaxDay = 2
    MaxLaunches = 3
    MaxFaults = 1
    MaxAge = 1
    Kinds = {"daily", "pre", "post", "thesis"}
INVARIANTS
    OneStory
    CleanDayIsComplete
    StaleBreadthOnlyByFault
    FailureDoesNotSpread
CHECK_DEADLOCK FALSE
