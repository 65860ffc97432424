SPECIFICATION Spec
CONSTANTS
    MaxDay = 1
    MaxLaunches = 1
    MaxFaults = 1
    MaxAge = 1
    Kinds = {"daily"}
INVARIANT RefusedSignalsBlockStage4
CHECK_DEADLOCK FALSE
