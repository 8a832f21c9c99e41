\* One upgrade; agent calls that fail have had no effect.
SPECIFICATION Spec
CONSTANTS
  Calls = {c1}
  a = a
  s = s
  Hosts = {a, s}
  Voters = {a}
  v1 = v1
  v2 = v2
  Versions = {v1}
  Junk = Junk
  NoVersion = NoVersion
  Requests <- Upgrades
  Registrable = {}
  RateCapacity = 1
  MaxDeploys = 1
  RepoMayFail = FALSE
  MayCancel = FALSE
  LossyFailures = FALSE
INVARIANTS
  RolledBackIsSafe
CHECK_DEADLOCK FALSE
