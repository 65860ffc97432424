SPECIFICATION Spec
CHECK_DEADLOCK FALSE
CONSTANTS
  Unit = 1000
  Threshold = 150
  None = None
  Torn = Torn
  Assets = {80, 84, 100}
  LastDay = 3
  Readings = {}
  Lookback = 2
  MaxRuns = 3
  MaxFaults = 1
INVARIANT BrakeKeptWithoutNews
