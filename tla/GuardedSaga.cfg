\* Two sagas share a breaker, over hosts that fail at will.
SPECIFICATION FromARunningPair
CONSTANTS
  Calls = {c1, c2}
  Callers = {c1, c2}
  c1 = c1
  c2 = c2
  a = a
  s = s
  b = b
  v1 = v1
  Hosts = {a, s, b}
  Voters = {a, b}
  Versions = {v1}
  Junk = Junk
  NoVersion = NoVersion
  LossyFailures = TRUE
  Orders <- OneEach
  Threshold = 3
  Cooldown = 1
  MaxAttempts = 2
INVARIANTS
  TransientFaultsAreAbsorbed
  PrimariesApartNeverDoubleVote
PROPERTIES
  LockOutTakesThreshold
  EveryRunReturns
CHECK_DEADLOCK FALSE
