\* An upgrade and a decommission of one node, both admitted; nothing fails but agent calls.
SPECIFICATION Spec
CONSTANTS
  Calls = {c1, c2}
  a = a
  s = s
  Hosts = {a, s}
  Voters = {a}
  v1 = v1
  v2 = v2
  Versions = {v1}
  Junk = Junk
  NoVersion = NoVersion
  Requests <- UpgradeAndLeave
  Registrable = {}
  RateCapacity = 2
  MaxDeploys = 2
  RepoMayFail = FALSE
  MayCancel = FALSE
  LossyFailures = FALSE
PROPERTIES
  DecommissionedNeverBecomesActive
CHECK_DEADLOCK FALSE
