\* Three callers under fairness, a threshold beyond the attempts of one call.
SPECIFICATION FairSpec
CONSTANTS
  Callers = {c1, c2, c3}
  Threshold = 3
  Cooldown = 2
  MaxAttempts = 2
INVARIANTS
  TypeOK
  ClosedBelowThreshold
  FailuresAreBounded
PROPERTIES
  RecoversWithTheHosts
  EveryGuardedCallEnds
CHECK_DEADLOCK FALSE
