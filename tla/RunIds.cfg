\* Ten runs and no advice: the tenth is printed as 0a.
SPECIFICATION ReadSpec
CONSTANTS
  Backends = {"memory"}
  MaxRuns = 10
  MaxLives = 1
  MaxTime = 0
  Width = 2
  Questions = {}
  HasKey = FALSE
  MaxRetries = 1
  CallTimeout = 0
  BaseDelay = 0
  MaxDelay = 0
INVARIANTS
  PrintedIdFindsTheRun
CHECK_DEADLOCK FALSE
